---- MODULE Spec2Model ----
(***************************************************************************)
(* Chart-data synthesis pipeline of ai-csv-agent-backend.                  *)
(*                                                                         *)
(*   src/chart_processor.py  convert_to_numeric, remove_outliers_iqr,      *)
(*                           create_chartjs_data                           *)
(*   src/ai_agent.py         DataPlottingAgent.process_data_and_plot,      *)
(*                           find_substrings_in_response, shorten_response *)
(*   src/main.py             upload_csv, get_processed_data, token_store   *)
(*   src/csv_processor.py    process_csv_with_pandas,                      *)
(*                           sanitize_for_csv_injection                    *)
(*                                                                         *)
(* Text (cells, column names, chart types, the model's response) is a      *)
(* sequence of one-character strings, so that parsing, substring search    *)
(* and truncation are computed character by character.  A number that is   *)
(* not an integer is a fraction [num, den] in lowest terms; quantiles are  *)
(* carried as integer multiples of 1/4 and the IQR bounds as multiples of  *)
(* 1/8, which is exact for the integer columns the pipeline filters.       *)
(***************************************************************************)
EXTENDS Integers, Sequences, FiniteSets, TLC

VARIABLES
    df,        \* the caller's DataFrame object (main.py: token_store[token]["data"]), or NoData
    uploaded,  \* history: the DataFrame as it was first supplied
    request,   \* the input of the operation that ran last
    outcome    \* what the operation that ran last returned or raised

vars == <<df, uploaded, request, outcome>>

----------------------------------------------------------------------------
(* Bounds of the model.                                                    *)

\* most rows of a dataset handed to create_chartjs_data
MaxRows == 4
\* most rows of an uploaded CSV file
MaxUploadRows == 2
\* most words of a response text handed to process_data_and_plot
MaxWords == 3
\* most rows of a DataFrame handed to remove_outliers_iqr alone
MaxVals == 5
\* most rows of a DataFrame handed to convert_to_numeric alone
MaxCells == 2
\* the most characters of a text handed to shorten_response alone
MaxChars == 5

----------------------------------------------------------------------------
(* Text.                                                                   *)

Digits == <<"0", "1", "2", "3", "4", "5", "6", "7", "8", "9">>

IsDigit(c) == \E i \in 1..10 : Digits[i] = c

DigitVal(c) == (CHOOSE i \in 1..10 : Digits[i] = c) - 1

RECURSIVE Concat(_)
\* the concatenation of a sequence of texts
Concat(ws) == IF ws = <<>> THEN <<>> ELSE Head(ws) \o Concat(Tail(ws))

RECURSIVE Pow10(_)
Pow10(k) == IF k = 0 THEN 1 ELSE 10 * Pow10(k - 1)

RECURSIVE DigitsValue(_)
\* the value of a sequence of decimal digits (the empty sequence is 0)
DigitsValue(s) ==
    IF s = <<>> THEN 0
    ELSE 10 * DigitsValue(SubSeq(s, 1, Len(s) - 1)) + DigitVal(s[Len(s)])

----------------------------------------------------------------------------
(* Numbers that need not be integers.                                      *)

RECURSIVE GCD(_, _)
GCD(a, b) == IF b = 0 THEN a ELSE GCD(b, a % b)

\* the fraction n/d (n >= 0, d > 0) in lowest terms
Frac(n, d) == LET g == GCD(n, d) IN [num |-> n \div g, den |-> d \div g]

IsIntegral(x) == x.num % x.den = 0

\* the truncation plus one
IntOfPlusOne(x) == x.num \div x.den + 1

\* Python's int(x): truncation (the values here are never negative)
IntOf(x) == x.num \div x.den

----------------------------------------------------------------------------
(* Cells and DataFrames.                                                   *)
(* A cell of an object-dtype column is a str; a cell of an int64 column is *)
(* an integer.  A DataFrame is its ordered column names, a dtype per       *)
(* column and its rows in index order.                                     *)

StrCell(s) == [t |-> "str", s |-> s, v |-> 0]
IntCell(n) == [t |-> "int", s |-> <<>>, v |-> n]

NoData == [columns |-> <<>>, dtype |-> <<>>, rows |-> <<>>]

ColumnSet(d) == {d.columns[i] : i \in DOMAIN d.columns}

----------------------------------------------------------------------------
(* Type Normalizer: convert_to_numeric.                                    *)

\* pd.to_numeric on one str: digits, optionally a point and more digits, at
\* least one digit in all; anything else does not parse (NaN under
\* errors='coerce').
ParseNum(s) ==
    LET dots  == {i \in DOMAIN s : s[i] = "."}
        p     == IF dots = {} THEN Len(s) + 1 ELSE CHOOSE i \in dots : TRUE
        whole == SubSeq(s, 1, p - 1)
        fracp == SubSeq(s, p + 1, Len(s))
        wellformed ==
            /\ Cardinality(dots) <= 1
            /\ \A i \in DOMAIN s : i # p => IsDigit(s[i])
            /\ Len(whole) + Len(fracp) >= 1
    IN  IF wellformed
        THEN [ok |-> TRUE,
              val |-> Frac(DigitsValue(whole) * Pow10(Len(fracp)) + DigitsValue(fracp),
                           Pow10(Len(fracp)))]
        ELSE [ok |-> FALSE, val |-> Frac(0, 1)]

\* pd.to_numeric on one cell of either dtype
ToNumeric(c) == IF c.t = "int" THEN [ok |-> TRUE, val |-> Frac(c.v, 1)] ELSE ParseNum(c.s)

\* line 138: s.isnull().any()
HasNull(d, col) == \E i \in DOMAIN d.rows : ~ToNumeric(d.rows[i][col]).ok

\* line 145: all(x == int(x) for x in s)
AllIntegral(d, col) == \A i \in DOMAIN d.rows : IsIntegral(ToNumeric(d.rows[i][col]).val)

\* lines 138-149: the column is replaced by s.astype(int) when every cell
\* parses and every value is integral, and is kept as it is otherwise
ConvertsToInt(d, col) == ~HasNull(d, col) /\ AllIntegral(d, col)

convert_to_numeric(d) ==
    LET conv == {c \in ColumnSet(d) : ConvertsToInt(d, c)}
    IN  [columns |-> d.columns,
         dtype   |-> [c \in ColumnSet(d) |-> IF c \in conv THEN "int64" ELSE d.dtype[c]],
         rows    |-> [i \in DOMAIN d.rows |->
                        [c \in ColumnSet(d) |->
                            IF c \in conv
                            THEN IntCell(IntOf(ToNumeric(d.rows[i][c]).val))
                            ELSE d.rows[i][c]]]]

----------------------------------------------------------------------------
(* Outlier Filter: remove_outliers_iqr.                                    *)

RECURSIVE Insert(_, _)
Insert(x, s) ==
    IF s = <<>> THEN <<x>>
    ELSE IF x <= Head(s) THEN <<x>> \o s
    ELSE <<Head(s)>> \o Insert(x, Tail(s))

RECURSIVE SortInts(_)
SortInts(s) == IF s = <<>> THEN <<>> ELSE Insert(Head(s), SortInts(Tail(s)))

\* 4 * Series.quantile(k/4) of a non-empty integer column, by linear
\* interpolation: position (n-1)*k/4 in the sorted values
Quantile4(vals, k) ==
    LET s == SortInts(vals)
        i == ((Len(s) - 1) * k) \div 4
        r == ((Len(s) - 1) * k) % 4
    IN  IF r = 0 THEN 4 * s[i + 1] ELSE (4 - r) * s[i + 1] + r * s[i + 2]

\* lines 166-170, in eighths: 8*lower_bound and 8*upper_bound
LowerBound8(vals) ==
    LET Q1 == Quantile4(vals, 1)
        Q3 == Quantile4(vals, 3)
    IN  2 * Q1 - 3 * (Q3 - Q1)

\* the upper bound taken from Q1 in place of Q3
UpperBoundFromQ1(vals) ==
    LET Q1 == Quantile4(vals, 1)
        Q3 == Quantile4(vals, 3)
    IN  2 * Q1 + 3 * (Q3 - Q1)

UpperBound8(vals) ==
    LET Q1 == Quantile4(vals, 1)
        Q3 == Quantile4(vals, 3)
    IN  2 * Q3 + 3 * (Q3 - Q1)

\* the mask with the bounds excluded: (col > lower_bound) & (col < upper_bound)
InBoundsStrict(vals, v) == 8 * v > LowerBound8(vals) /\ 8 * v < UpperBound8(vals)

\* line 173: the mask (col >= lower_bound) & (col <= upper_bound)
InBounds(vals, v) == 8 * v >= LowerBound8(vals) /\ 8 * v <= UpperBound8(vals)

RECURSIVE SelectRows(_, _)
\* the rows of a sequence that satisfy the mask, in their order
SelectRows(rows, keep) ==
    IF rows = <<>> THEN <<>>
    ELSE (IF keep[1] THEN <<Head(rows)>> ELSE <<>>)
         \o SelectRows(Tail(rows), Tail(keep))

Ok(d) == [exc |-> "", df |-> d]
Raise(e, d) == [exc |-> e, df |-> d]

\* remove_outliers_iqr(dataframe, column_name): a missing column is a
\* KeyError of dataframe[column_name]; quantile() of an object column of
\* str raises TypeError; quantile() of an empty column is NaN and every
\* comparison with NaN is False, so no row is kept.
remove_outliers_iqr(d, col) ==
    IF col \notin ColumnSet(d) THEN Raise("KeyError", d)
    ELSE IF d.dtype[col] # "int64" THEN Raise("TypeError", d)
    ELSE IF d.rows = <<>> THEN Ok(d)
    ELSE LET vals == [i \in DOMAIN d.rows |-> d.rows[i][col].v]
             keep == [i \in DOMAIN d.rows |-> InBounds(vals, vals[i])]
         IN  Ok([d EXCEPT !.rows = SelectRows(d.rows, keep)])

----------------------------------------------------------------------------
(* Aggregator/Formatter: create_chartjs_data.                              *)

bar      == <<"b", "a", "r">>
line     == <<"l", "i", "n", "e">>
pie      == <<"p", "i", "e">>
doughnut == <<"d", "o", "u", "g", "h", "n", "u", "t">>
PIE      == <<"P", "I", "E">>

\* str.lower() on the letters the chart types are written in
LowerChar(c) ==
    CASE c = "P" -> "p" [] c = "I" -> "i" [] c = "E" -> "e" [] OTHER -> c

Lower(s) == [i \in DOMAIN s |-> LowerChar(s[i])]

\* lines 35-36: for col in column_names: df = remove_outliers_iqr(df, col);
\* the first call that raises ends the loop
RECURSIVE FilterChain(_, _)
FilterChain(d, cols) ==
    IF cols = <<>> THEN Ok(d)
    ELSE LET r == remove_outliers_iqr(d, Head(cols))
         IN  IF r.exc # "" THEN r ELSE FilterChain(r.df, Tail(cols))

\* pd.api.types.is_integer_dtype / is_numeric_dtype of a column
is_integer_dtype(d, col) == d.dtype[col] = "int64"
is_numeric_dtype(d, col) == d.dtype[col] = "int64"

\* int(val) of a cell: a str must be written as an integer
IntFails(c) == c.t = "str" /\ (c.s = <<>> \/ \E i \in DOMAIN c.s : ~IsDigit(c.s[i]))
IntValue(c) == IF c.t = "int" THEN Frac(c.v, 1) ELSE Frac(DigitsValue(c.s), 1)

\* float(val) of a cell: a str must parse as a number
FloatFails(c) == ~ToNumeric(c).ok
FloatValue(c) == ToNumeric(c).val

\* int(val) if is_integer_dtype(df[col]) else float(val)
CoerceFails(d, col) ==
    ~is_integer_dtype(d, col) /\ \E i \in DOMAIN d.rows : FloatFails(d.rows[i][col])
Coerce(d, col, c) == IF is_integer_dtype(d, col) THEN IntValue(c) ELSE FloatValue(c)

\* lines 100-106: the first value column whose dtype is numeric, or <<>>
RECURSIVE FirstNumeric(_, _)
FirstNumeric(d, cols) ==
    IF cols = <<>> THEN <<>>
    ELSE IF is_numeric_dtype(d, Head(cols)) THEN <<Head(cols)>>
    ELSE FirstNumeric(d, Tail(cols))

FracLeq(x, y) == x.num * y.den <= y.num * x.den

FracAdd(x, y) == Frac(x.num * y.den + y.num * x.den, x.den * y.den)

RECURSIVE InsertEntry(_, _, _)
\* e goes after every entry whose key is not greater: the sort is stable
InsertEntry(e, s, key) ==
    IF s = <<>> THEN <<e>>
    ELSE IF FracLeq(s[Len(s)][key], e[key]) THEN Append(s, e)
    ELSE Append(InsertEntry(e, SubSeq(s, 1, Len(s) - 1), key), s[Len(s)])

\* the entries left in row order, not sorted by the key
KeepEntryOrder(s, key) == s

RECURSIVE SortEntries(_, _)
\* line 112: sorted(data, key = first value of the entry)
SortEntries(s, key) ==
    IF s = <<>> THEN <<>>
    ELSE InsertEntry(s[Len(s)], SortEntries(SubSeq(s, 1, Len(s) - 1), key), key)

RECURSIVE SumOf(_, _)
SumOf(s, key) ==
    IF s = <<>> THEN Frac(0, 1) ELSE FracAdd(Head(s)[key], SumOf(Tail(s), key))

RECURSIVE DistinctKeys(_, _)
\* the distinct values of a key in a sequence sorted by that key
DistinctKeys(s, key) ==
    IF s = <<>> THEN <<>>
    ELSE LET rest == DistinctKeys(Tail(s), key)
         IN  IF rest # <<>> /\ rest[1] = Head(s)[key] THEN rest
             ELSE <<Head(s)[key]>> \o rest

\* the aggregation 'sum' in place of 'mean'
GroupSum(group, vcol) == SumOf(group, vcol)

\* the arithmetic mean of the value column over one group
GroupMean(group, vcol) ==
    LET total == SumOf(group, vcol)
    IN  Frac(total.num, total.den * Len(group))

\* lines 113-127: groupby(aggregate_by_col).agg(mean).reset_index(); the
\* groups come out in ascending key order
GroupByMean(data, lcol, vcol) ==
    LET sorted == SortEntries(data, lcol)
        keys   == DistinctKeys(sorted, lcol)
    IN  [g \in DOMAIN keys |->
            LET group == SelectSeq(sorted, LAMBDA e : e[lcol] = keys[g])
            IN  [k \in {lcol, vcol} |->
                    IF k = lcol THEN keys[g] ELSE GroupMean(group, vcol)]]

NoChart == [chartType |-> <<>>, data |-> <<>>, labelsKey |-> <<>>,
            valuesKey |-> <<>>, scales |-> FALSE, xTitle |-> <<>>]

\* what create_chartjs_data hands back: the exception it raised ("" for
\* none) with the statement that raised it, the payload it returned, the
\* caller's DataFrame after the call and the working copy after the filters
Built(chart, caller, work) ==
    [exc |-> "", at |-> "", chart |-> chart, df |-> caller, work |-> work]
Failed(e, where, caller, work) ==
    [exc |-> e, at |-> where, chart |-> NoChart, df |-> caller, work |-> work]

\* lines 71 and 87-88 or 103-104: one entry per row, then lines 110-128
SeriesOf(caller, w, labels_col, vcol, chart_type) ==
    Built([chartType |-> chart_type,
           data      |-> GroupByMean([i \in DOMAIN w.rows |->
                            [k \in {labels_col, vcol} |->
                                IF k = labels_col THEN IntValue(w.rows[i][labels_col])
                                ELSE Coerce(w, vcol, w.rows[i][vcol])]],
                            labels_col, vcol),
           labelsKey |-> labels_col,
           valuesKey |-> vcol,
           scales    |-> TRUE,
           xTitle    |-> labels_col], caller, w)

\* lines 81-128, found being the value column chosen, or <<>>
SeriesWith(caller, w, column_names, chart_type, found) ==
    IF \E i \in DOMAIN w.rows : IntFails(w.rows[i][column_names[1]])
    THEN Failed("ValueError", "int(val)", caller, w)
    ELSE IF Len(column_names) > 2 /\ found = <<>>
    THEN Failed("ValueError", "No numeric column found", caller, w)
    ELSE IF found # <<>> /\ CoerceFails(w, found[1])
    THEN Failed("ValueError", "float(val)", caller, w)
    ELSE IF found = <<>>
    \* one column only: agg_dict is empty and DataFrameGroupBy.agg({})
    \* raises ValueError("No objects to concatenate")
    THEN Failed("ValueError", "agg", caller, w)
    ELSE SeriesOf(caller, w, column_names[1], found[1], chart_type)

\* lines 66-128, chart types other than pie and doughnut: the one value
\* column, or the first numeric one of several
BuildSeries(caller, w, column_names, chart_type) ==
    SeriesWith(caller, w, column_names, chart_type,
               IF Len(column_names) = 2 THEN Tail(column_names)
               ELSE FirstNumeric(w, Tail(column_names)))

\* lines 46-64 and 110: pie and doughnut.  Line 64 pops "scales" from the
\* options and line 110, which runs for every chart type, then reads
\* options["scales"]: KeyError.
BuildPie(caller, w, column_names, chart_type) ==
    IF Len(column_names) # 2
    THEN Failed("ValueError", "must contain exactly two columns", caller, w)
    ELSE IF \E i \in 1..2 : CoerceFails(w, column_names[i])
    THEN Failed("ValueError", "float(row)", caller, w)
    ELSE Failed("KeyError", "scales", caller, w)

\* lines 38-128: validation and build on the working copy w the filters
\* left, caller being the caller's DataFrame
Validated(caller, w, column_names, chart_type) ==
    IF column_names = <<>>
    THEN Failed("ValueError", "column_names cannot be empty", caller, w)
    ELSE IF \E i \in DOMAIN column_names : column_names[i] \notin ColumnSet(w)
    THEN Failed("ValueError", "Columns not found in DataFrame", caller, w)
    ELSE IF Lower(chart_type) \in {pie, doughnut}
    THEN BuildPie(caller, w, column_names, chart_type)
    ELSE BuildSeries(caller, w, column_names, chart_type)

\* lines 35-36, then the rest unless a filter raised
Filtered(caller, filtered, column_names, chart_type) ==
    IF filtered.exc # ""
    THEN Failed(filtered.exc, "remove_outliers_iqr", caller, filtered.df)
    ELSE Validated(caller, filtered.df, column_names, chart_type)

\* line 34: convert_to_numeric(df) has changed the caller's DataFrame in
\* place; the filters then work on copies of it
Normalized(caller, column_names, chart_type) ==
    Filtered(caller, FilterChain(caller, column_names), column_names, chart_type)

\* create_chartjs_data(df, column_names, chart_type)
create_chartjs_data(d, column_names, chart_type) ==
    Normalized(convert_to_numeric(d), column_names, chart_type)

----------------------------------------------------------------------------
(* Inference Extractor: DataPlottingAgent.                                 *)

\* str.find(key): the least 0-based offset at which key occurs, or -1
Find(text, key) ==
    LET hits == {i \in 0..(Len(text) - Len(key)) :
                    SubSeq(text, i + 1, i + Len(key)) = key}
    IN  IF hits = {} THEN -1
        ELSE CHOOSE i \in hits : \A j \in hits : i <= j

\* find_substrings_in_response: the offset of every key of the dict, the
\* dict being the sequence of its keys in insertion order
find_substrings_in_response(response_str, keys) ==
    [i \in DOMAIN keys |-> Find(response_str, keys[i])]

RECURSIVE InsertByOffset(_, _, _)
\* k goes after every key whose offset is not greater: sorted() is stable
InsertByOffset(k, s, off) ==
    IF s = <<>> THEN <<k>>
    ELSE IF off[s[Len(s)]] <= off[k] THEN Append(s, k)
    ELSE Append(InsertByOffset(k, SubSeq(s, 1, Len(s) - 1), off), s[Len(s)])

\* the found keys left in dict order, not sorted by offset
KeepDictOrder(s, off) == s

RECURSIVE SortByOffset(_, _)
SortByOffset(s, off) ==
    IF s = <<>> THEN <<>>
    ELSE InsertByOffset(s[Len(s)], SortByOffset(SubSeq(s, 1, Len(s) - 1), off), off)

\* lines 70-77: the keys found in the response, in ascending offset order
Ranking(response_str, keys) ==
    LET found    == find_substrings_in_response(response_str, keys)
        filtered == SelectSeq([i \in DOMAIN keys |-> i], LAMBDA i : found[i] # -1)
        sorted   == SortByOffset(filtered, found)
    IN  [i \in DOMAIN sorted |-> keys[sorted[i]]]

\* line 70: the keys of found_chart_types, in insertion order
ChartVocabulary == <<bar, line, pie>>

\* str.find(','): the least 0-based offset of a comma, or -1
FindComma(s) ==
    LET hits == {i \in DOMAIN s : s[i] = ","}
    IN  IF hits = {} THEN -1
        ELSE (CHOOSE i \in hits : \A j \in hits : i <= j) - 1

\* str.rfind(','): the greatest 0-based offset of a comma, or -1
RFindComma(s) ==
    LET hits == {i \in DOMAIN s : s[i] = ","}
    IN  IF hits = {} THEN -1
        ELSE (CHOOSE i \in hits : \A j \in hits : j <= i) - 1

shorten_response(s) ==
    LET last_comma_index == RFindComma(s)
    IN  IF last_comma_index # -1 THEN SubSeq(s, 1, last_comma_index) ELSE s

\* the exceptions raised inside the try block of lines 58-89, all of them
\* subclasses of Exception
ExceptionClasses ==
    {"RuntimeError", "FileNotFoundError", "StopIteration",
     "KeyError", "TypeError", "ValueError"}

\* a handler for ValueError alone
CaughtValueError(e) == e = "ValueError"

\* line 91: except Exception
Caught(e) == e \in ExceptionClasses

\* lines 91-97: the dict process_data_and_plot returns for an exception its
\* handler catches, with the rankings it computed; raised names an
\* exception that reaches the caller ("" for none)
AgentFailure(d, e, types, cols) ==
    IF Caught(e)
    THEN [chart_data |-> NoChart, has_chart |-> FALSE,
          summary |-> <<"An unexpected error occurred", e>>,
          error |-> "UNEXPECTED_ERROR", raised |-> "", df |-> d,
          sorted_chart_types |-> types, sorted_column_names |-> cols]
    ELSE [chart_data |-> NoChart, has_chart |-> FALSE, summary |-> <<>>,
          error |-> "", raised |-> e, df |-> d,
          sorted_chart_types |-> types, sorted_column_names |-> cols]

\* lines 83-97: the dict returned once create_chartjs_data has run
AgentResult(built, response, types, cols) ==
    IF built.exc # ""
    THEN AgentFailure(built.df, built.exc, types, cols)
    ELSE [chart_data |-> built.chart, has_chart |-> TRUE,
          summary |-> shorten_response(response),
          error |-> "None", raised |-> "", df |-> built.df,
          sorted_chart_types |-> types, sorted_column_names |-> cols]

\* lines 78-97; next(iter({})) raises StopIteration
Chosen(d, response, types, cols) ==
    IF types = <<>>
    THEN AgentFailure(d, "StopIteration", types, cols)
    ELSE AgentResult(create_chartjs_data(d, cols, types[1]), response, types, cols)

\* process_data_and_plot(df, user_prompt), given what self.llm.invoke did:
\* llm_ok = FALSE when it raised, else its return value is response
process_data_and_plot(d, llm_ok, response) ==
    IF ~llm_ok THEN AgentFailure(d, "RuntimeError", <<>>, <<>>)
    ELSE Chosen(d, response, Ranking(response, ChartVocabulary),
                Ranking(response, d.columns))

----------------------------------------------------------------------------
(* Upload: process_csv_with_pandas and sanitize_for_csv_injection.         *)

\* read_csv(dtype=str): every column of dtype object, every cell a str
process_csv_with_pandas(cols, lines) ==
    [columns |-> cols,
     dtype   |-> [c \in {cols[i] : i \in DOMAIN cols} |-> "object"],
     rows    |-> [i \in DOMAIN lines |->
                    [c \in {cols[j] : j \in DOMAIN cols} |-> StrCell(lines[i][c])]]]

\* sanitize_cell: a tab goes before a str that starts with = + - or @
sanitize_cell(c) ==
    IF c.t = "str" /\ c.s # <<>> /\ c.s[1] \in {"=", "+", "-", "@"}
    THEN StrCell(<<"\t">> \o c.s)
    ELSE c

sanitize_for_csv_injection(d) ==
    [d EXCEPT !.rows = [i \in DOMAIN d.rows |->
                            [c \in ColumnSet(d) |-> sanitize_cell(d.rows[i][c])]]]

----------------------------------------------------------------------------
(* Inputs.                                                                 *)

a == <<"a">>
b == <<"b">>
t == <<"t">>
z == <<"z">>
comma == <<",">>

\* one line of a CSV file with the header a,b,t
Row(x, y, w) == [c \in {a, b, t} |-> IF c = a THEN x ELSE IF c = b THEN y ELSE w]

\* the lines the CSV files are made of: integer cells with a repeated
\* label and differing values, a cell written "2.0", a formula cell, and a
\* text cell in the first and in the last column
RowPool ==
    {Row(<<"1">>, <<"1">>, <<"1">>),
     Row(<<"1">>, <<"2">>, <<"2", ".", "0">>),
     Row(<<"2">>, <<"1">>, <<"=", "B">>),
     Row(<<"A">>, <<"2">>, <<"1">>)}

\* the DataFrame upload_csv stores for a file of the given lines
Stored(lines) == sanitize_for_csv_injection(process_csv_with_pandas(<<a, b, t>>, lines))

BuildDatasets == {Stored(lines) : lines \in UNION {[1..n -> RowPool] : n \in 1..MaxRows}}

UploadDatasets ==
    {Stored(lines) : lines \in UNION {[1..n -> RowPool] : n \in 0..MaxUploadRows}}

AgentDatasets == {Stored(lines) : lines \in [1..1 -> RowPool] \cup [1..2 -> RowPool]}

\* column_names: the sequences of at most two distinct names, one of them
\* the name of no column, and the orderings of the three columns
ColumnSelections ==
    {<<>>} \cup {<<x>> : x \in {a, b, t, z}}
    \cup {q \in {a, b, t, z} \X {a, b, t, z} : q[1] # q[2]}
    \cup {q \in {a, b, t} \X {a, b, t} \X {a, b, t} :
            q[1] # q[2] /\ q[1] # q[3] /\ q[2] # q[3]}

ChartTypes == {bar, line, pie, doughnut, PIE}

\* the response texts of at most MaxWords words
Words == {bar, line, pie, a, b, t, comma}
Texts ==
    {Concat(ws) : ws \in UNION {[1..n -> Words] : n \in 0..MaxWords}}
    \cup {Concat(<<bar, comma, a, comma, b>>), Concat(<<line, a, comma, b, comma, t>>)}

\* the response texts of the requests sent to the server
Responses ==
    {<<>>,
     bar,
     Concat(<<pie, comma, a, comma, b>>),
     Concat(<<line, comma, b, comma, a, comma, t>>),
     Concat(<<a, comma, b>>),
     Concat(<<t, comma, line, comma, b, comma, pie>>),
     Concat(<<line, b, a>>)}

\* the integer columns handed to remove_outliers_iqr alone
FilterValues == {1, 2, 3, 9}

\* column a holds the values, column b the position of the row
FilterFrames ==
    {[columns |-> <<a, b>>, dtype |-> [c \in {a, b} |-> "int64"],
      rows |-> [i \in DOMAIN vals |-> [c \in {a, b} |->
                    IntCell(IF c = a THEN vals[i] ELSE i)]]] :
        vals \in UNION {[1..n -> FilterValues] : n \in 0..MaxVals}}

\* the cells of the DataFrames handed to convert_to_numeric alone
NormCells == {<<"7">>, <<"2", ".", "0">>, <<"1", ".", "5">>, <<"A">>}

NormFrames ==
    {process_csv_with_pandas(<<a, b>>, lines) :
        lines \in UNION {[1..n -> [{a, b} -> NormCells]] : n \in 1..MaxCells}}

\* 'bar, category, amount, because trend' and what is left of it
TrendResponse ==
    <<"b", "a", "r", ",", " ", "c", "a", "t", "e", "g", "o", "r", "y", ",", " ",
      "a", "m", "o", "u", "n", "t", ",", " ",
      "b", "e", "c", "a", "u", "s", "e", " ", "t", "r", "e", "n", "d">>
TrendSummary ==
    <<"b", "a", "r", ",", " ", "c", "a", "t", "e", "g", "o", "r", "y", ",", " ",
      "a", "m", "o", "u", "n", "t">>

\* the texts handed to shorten_response alone
ShortenChars == {",", "a", " "}
ShortenTexts ==
    UNION {[1..n -> ShortenChars] : n \in 0..MaxChars} \cup {TrendResponse}

NoRequest == [op |-> "none"]
NoOutcome == [op |-> "none"]

----------------------------------------------------------------------------
(* The server: upload_csv and get_processed_data on one token.             *)

Init ==
    /\ df = NoData
    /\ uploaded = NoData
    /\ request = NoRequest
    /\ outcome = NoOutcome

\* POST /upload-csv/: a file of another content type is refused
upload_csv ==
    /\ df = NoData
    /\ \E content_type \in {"text/csv", "text/plain"}, d \in UploadDatasets :
        /\ request' = [op |-> "upload-csv", content_type |-> content_type]
        /\ IF content_type # "text/csv"
           THEN /\ outcome' = [op |-> "upload-csv", status |-> "400"]
                /\ UNCHANGED <<df, uploaded>>
           ELSE /\ outcome' = [op |-> "upload-csv", status |-> "200"]
                /\ df' = d
                /\ uploaded' = d

\* POST /send-prompt: 404 when the token is unknown or its data is empty,
\* else the result of process_data_and_plot on the stored DataFrame
get_processed_data ==
    \E llm_ok \in BOOLEAN, response \in Responses :
        /\ llm_ok \/ response = <<>>
        /\ request' = [op |-> "send-prompt", llm_ok |-> llm_ok, response |-> response]
        /\ IF df = NoData \/ df.rows = <<>>
           THEN /\ outcome' = [op |-> "send-prompt", status |-> "404"]
                /\ UNCHANGED <<df, uploaded>>
           ELSE /\ outcome' = [op |-> "send-prompt", status |-> "200",
                                result |-> process_data_and_plot(df, llm_ok, response)]
                /\ df' = outcome'.result.df
                /\ UNCHANGED uploaded

Next == upload_csv \/ get_processed_data

Spec == Init /\ [][Next]_vars

----------------------------------------------------------------------------
(* create_chartjs_data applied once to a DataFrame as the upload leaves    *)
(* it.                                                                     *)

InitBuild ==
    /\ df \in BuildDatasets
    /\ uploaded = df
    /\ request = NoRequest
    /\ outcome = NoOutcome

Build ==
    /\ request.op = "none"
    /\ \E column_names \in ColumnSelections, chart_type \in ChartTypes :
        /\ request' = [op |-> "build", column_names |-> column_names,
                       chart_type |-> chart_type]
        /\ outcome' = create_chartjs_data(df, column_names, chart_type)
        /\ df' = outcome'.df
        /\ UNCHANGED uploaded

NextBuild == Build

SpecBuild == InitBuild /\ [][NextBuild]_vars

----------------------------------------------------------------------------
(* process_data_and_plot applied once to a stored DataFrame.               *)

InitAgent ==
    /\ df \in AgentDatasets
    /\ uploaded = df
    /\ request = NoRequest
    /\ outcome = NoOutcome

\* self.llm.invoke returns a text
Answer ==
    /\ request.op = "none"
    /\ \E response \in Texts :
        /\ request' = [op |-> "plot", llm_ok |-> TRUE, response |-> response]
        /\ outcome' = process_data_and_plot(df, TRUE, response)
        /\ df' = outcome'.df
        /\ UNCHANGED uploaded

\* self.llm.invoke raises
LlmRaises ==
    /\ request.op = "none"
    /\ request' = [op |-> "plot", llm_ok |-> FALSE, response |-> <<>>]
    /\ outcome' = process_data_and_plot(df, FALSE, <<>>)
    /\ df' = outcome'.df
    /\ UNCHANGED uploaded

NextAgent == Answer \/ LlmRaises

SpecAgent == InitAgent /\ [][NextAgent]_vars

----------------------------------------------------------------------------
(* remove_outliers_iqr applied once to an integer DataFrame.               *)

InitFilter ==
    /\ df \in FilterFrames
    /\ uploaded = df
    /\ request = NoRequest
    /\ outcome = NoOutcome

Filter ==
    /\ request.op = "none"
    /\ \E column_name \in {a, b} :
        /\ request' = [op |-> "filter", column_name |-> column_name]
        /\ outcome' = remove_outliers_iqr(df, column_name)
        /\ UNCHANGED <<df, uploaded>>

NextFilter == Filter

SpecFilter == InitFilter /\ [][NextFilter]_vars

----------------------------------------------------------------------------
(* convert_to_numeric applied, any number of times, to a DataFrame as      *)
(* read_csv leaves it.                                                     *)

InitNorm ==
    /\ df \in NormFrames
    /\ uploaded = df
    /\ request = NoRequest
    /\ outcome = NoOutcome

Normalize ==
    /\ request' = [op |-> "normalize", df |-> df]
    /\ df' = convert_to_numeric(df)
    /\ outcome' = [op |-> "normalize"]
    /\ UNCHANGED uploaded

NextNorm == Normalize

SpecNorm == InitNorm /\ [][NextNorm]_vars

----------------------------------------------------------------------------
(* shorten_response applied once to a response text.                       *)

InitShorten ==
    /\ df = NoData
    /\ uploaded = NoData
    /\ request \in {[op |-> "response", s |-> s] : s \in ShortenTexts}
    /\ outcome = NoOutcome

Shorten ==
    /\ request.op = "response"
    /\ request' = [op |-> "shorten", s |-> request.s]
    /\ outcome' = [op |-> "shorten", result |-> shorten_response(request.s)]
    /\ UNCHANGED <<df, uploaded>>

NextShorten == Shorten

SpecShorten == InitShorten /\ [][NextShorten]_vars

----------------------------------------------------------------------------
(* Properties.                                                             *)

BuildDone == request.op = "build"
BuildReturned == BuildDone /\ outcome.exc = ""

\* the names of request.column_names
Selected == {request.column_names[i] : i \in DOMAIN request.column_names}

\* every cell of the column, as uploaded, is written as a number
NumericColumn(c) ==
    \A i \in DOMAIN uploaded.rows : ToNumeric(uploaded.rows[i][c]).ok

\* the rows of the working copy that survived outlier removal
Survivors == outcome.work.rows

RECURSIVE TotalOf(_, _, _, _)
\* the sum of column v over the rows whose column l holds the integer lab
TotalOf(rows, l, v, lab) ==
    IF rows = <<>> THEN 0
    ELSE (IF Head(rows)[l].v = lab THEN Head(rows)[v].v ELSE 0)
         + TotalOf(Tail(rows), l, v, lab)

CountOf(rows, l, lab) == Cardinality({i \in DOMAIN rows : rows[i][l].v = lab})

\* C1: in every payload returned for chart type bar or line no two entries
\* of data share a label, and each entry's value is the arithmetic mean of
\* the values of the rows that survived outlier removal and carry its label
\* (value * count = sum, the value being a fraction).
C1_GroupingInvariant ==
    (BuildReturned /\ request.chart_type \in {bar, line}) =>
        LET data == outcome.chart.data
            l    == request.column_names[1]
            v    == outcome.chart.valuesKey
        IN  /\ \A i, j \in DOMAIN data : data[i][l] = data[j][l] => i = j
            /\ \A i \in DOMAIN data :
                /\ data[i][l].den = 1
                /\ CountOf(Survivors, l, data[i][l].num) >= 1
                /\ data[i][v].num * CountOf(Survivors, l, data[i][l].num)
                     = data[i][v].den * TotalOf(Survivors, l, v, data[i][l].num)

\* a bar or line payload built after the filter dropped a row, with a group
\* whose mean is not an integer
C1_Witness ==
    /\ BuildReturned /\ request.chart_type \in {bar, line}
    /\ Len(Survivors) < Len(uploaded.rows)
    /\ \E i \in DOMAIN outcome.chart.data :
            outcome.chart.data[i][outcome.chart.valuesKey].den # 1

\* C2: for chart type pie or doughnut with exactly two selected columns
\* that exist and are numeric, create_chartjs_data returns a payload with
\* one entry per surviving row, each entry holding exactly the two selected
\* keys, and no axis scales.
C2_PieReturnsPayload ==
    (/\ BuildDone /\ request.chart_type \in {pie, doughnut}
     /\ Len(request.column_names) = 2
     /\ Selected \subseteq ColumnSet(uploaded)
     /\ \A c \in Selected : NumericColumn(c)) =>
        /\ outcome.exc = ""
        /\ Len(outcome.chart.data) = Len(Survivors)
        /\ \A i \in DOMAIN outcome.chart.data : DOMAIN outcome.chart.data[i] = Selected
        /\ ~outcome.chart.scales

\* C3: a bar build whose label column holds text labels and whose single
\* value column is numeric succeeds, with one entry per distinct label.
C3_TextLabelsBarSucceeds ==
    (/\ BuildDone /\ request.chart_type = bar
     /\ Len(request.column_names) = 2
     /\ Selected \subseteq ColumnSet(uploaded)
     /\ ~NumericColumn(request.column_names[1])
     /\ NumericColumn(request.column_names[2])) =>
        /\ outcome.exc = ""
        /\ Len(outcome.chart.data)
             = Cardinality({Survivors[i][request.column_names[1]] : i \in DOMAIN Survivors})

\* the j-th smallest of a non-empty sequence of integers: the least value
\* that at least j of them do not exceed
Smallest(vals, j) ==
    LET atmost(x) == Cardinality({i \in DOMAIN vals : vals[i] <= x})
        cand == {vals[i] : i \in DOMAIN vals}
    IN  CHOOSE x \in cand : atmost(x) >= j /\ \A y \in cand : atmost(y) >= j => x <= y

\* 4 times the k-th quartile by linear interpolation between the order
\* statistics on either side of position (n-1)*k/4
Quartile4(vals, k) ==
    LET h  == (Len(vals) - 1) * k
        lo == Smallest(vals, (h \div 4) + 1)
        hi == Smallest(vals, IF h % 4 = 0 THEN (h \div 4) + 1 ELSE (h \div 4) + 2)
    IN  4 * lo + (h % 4) * (hi - lo)

\* Q1 - 1.5*IQR <= v <= Q3 + 1.5*IQR, in eighths
InsideIQR(vals, v) ==
    LET Q1  == Quartile4(vals, 1)
        Q3  == Quartile4(vals, 3)
        IQR == Q3 - Q1
    IN  2 * Q1 - 3 * IQR <= 8 * v /\ 8 * v <= 2 * Q3 + 3 * IQR

FilterDone == request.op = "filter"

\* C4: remove_outliers_iqr keeps exactly the rows whose value lies in
\* [Q1 - 1.5*IQR, Q3 + 1.5*IQR], bounds inclusive: a row of the input is in
\* the result if and only if its value is inside the interval.
C4_IqrBounds ==
    FilterDone =>
        LET vals == [i \in DOMAIN df.rows |-> df.rows[i][request.column_name].v]
            kept == {outcome.df.rows[j] : j \in DOMAIN outcome.df.rows}
        IN  /\ outcome.exc = ""
            /\ kept \subseteq {df.rows[i] : i \in DOMAIN df.rows}
            /\ \A i \in DOMAIN df.rows : df.rows[i] \in kept <=> InsideIQR(vals, vals[i])

\* the filter dropped a row above the upper bound and kept another
C4_Witness ==
    /\ FilterDone
    /\ outcome.df.rows # <<>>
    /\ \E i \in DOMAIN df.rows :
        /\ \A j \in DOMAIN outcome.df.rows : outcome.df.rows[j] # df.rows[i]
        /\ \A j \in DOMAIN outcome.df.rows :
              outcome.df.rows[j][request.column_name].v < df.rows[i][request.column_name].v

\* C5: the pipeline never mutates the caller-supplied dataset: whatever
\* requests have been served, the stored dataset a request observes is the
\* dataset as it was uploaded, with the same rows, cell values and column
\* types.
C5_StoredDatasetUnchanged == df = uploaded

NormDone == request.op = "normalize"

\* every cell of the column parses, as it was before the call
AllParse(d, c) == \A i \in DOMAIN d.rows : ToNumeric(d.rows[i][c]).ok
SomeFraction(d, c) == \E i \in DOMAIN d.rows : ~IsIntegral(ToNumeric(d.rows[i][c]).val)

\* C6: after convert_to_numeric a column whose cells all parse to integral
\* values is integer-typed, a column whose cells all parse with at least one
\* fractional value is floating-point-typed, and a column with a cell that
\* does not parse is left as text with no cell changed.
C6_ConversionRule ==
    NormDone =>
        \A c \in ColumnSet(df) :
            /\ (AllParse(request.df, c) /\ ~SomeFraction(request.df, c))
                    => df.dtype[c] = "int64"
            /\ (AllParse(request.df, c) /\ SomeFraction(request.df, c))
                    => df.dtype[c] = "float64"
            /\ ~AllParse(request.df, c)
                    => /\ df.dtype[c] = request.df.dtype[c]
                       /\ \A i \in DOMAIN df.rows : df.rows[i][c] = request.df.rows[i][c]

PlotAnswered == request.op = "plot" /\ request.llm_ok

\* the key occurs in the text at the 0-based offset i
OccursAt(text, key, i) ==
    i + Len(key) <= Len(text) /\ \A k \in 1..Len(key) : text[i + k] = key[k]

Occurs(text, key) == \E i \in 0..Len(text) : OccursAt(text, key, i)

\* the key occurs at offset i and at no smaller offset
FirstAt(text, key, i) ==
    OccursAt(text, key, i) /\ \A j \in 0..(i - 1) : ~OccursAt(text, key, j)

\* the ranking holds exactly the candidates that occur in the text, and
\* the one it ranks first occurs no later than any other candidate
RankedByFirstOffset(text, candidates, ranking) ==
    /\ {ranking[i] : i \in DOMAIN ranking}
         = {candidates[i] : i \in DOMAIN candidates} \cap
           {k \in {candidates[i] : i \in DOMAIN candidates} : Occurs(text, k)}
    /\ ranking # <<>> =>
        \E i \in 0..Len(text) :
            /\ FirstAt(text, ranking[1], i)
            /\ \A n \in DOMAIN candidates, j \in 0..(i - 1) :
                    ~OccursAt(text, candidates[n], j)

\* C7: in the ranking of the chart-type vocabulary and in the ranking of
\* the column names, the candidate with the smallest first-occurrence
\* offset is ranked first and a candidate absent from the text never
\* appears; the first-ranked chart type is the type of the payload built.
C7_RankingByFirstOffset ==
    PlotAnswered =>
        /\ RankedByFirstOffset(request.response, <<bar, line, pie>>,
                               outcome.sorted_chart_types)
        /\ RankedByFirstOffset(request.response, uploaded.columns,
                               outcome.sorted_column_names)
        /\ outcome.has_chart =>
            /\ outcome.chart_data.chartType = outcome.sorted_chart_types[1]
            /\ outcome.chart_data.labelsKey = outcome.sorted_column_names[1]
            /\ Occurs(request.response, outcome.chart_data.valuesKey)

\* line is mentioned before bar, which comes first in the vocabulary, a
\* column is not mentioned at all, and the payload is built
C7_Witness ==
    /\ PlotAnswered
    /\ outcome.sorted_chart_types = <<line, bar>>
    /\ outcome.has_chart
    /\ \E i \in DOMAIN uploaded.columns : ~Occurs(request.response, uploaded.columns[i])

\* C8: create_chartjs_data fails with a validation error (the ValueError of
\* lines 39 and 44) whenever the column list is empty or names a column
\* absent from the dataset, for every chart type.
C8_SchemaErrorOnBadSelection ==
    (BuildDone /\ (request.column_names = <<>> \/ ~(Selected \subseteq ColumnSet(uploaded)))) =>
        /\ outcome.exc = "ValueError"
        /\ outcome.at \in {"column_names cannot be empty", "Columns not found in DataFrame"}

\* the trailing columns of the selection that are numeric, in their order
NumericTrailing ==
    SelectSeq(Tail(request.column_names), LAMBDA c : NumericColumn(c))

\* C9: for bar or line with two or more trailing value columns (all
\* selected columns existing, the label column numeric) the value column is
\* the leftmost numeric trailing column, and the build fails with the
\* no-usable-numeric-column error when no trailing column is numeric.
C9_LeftmostNumericValueColumn ==
    (/\ BuildDone /\ request.chart_type \in {bar, line}
     /\ Len(request.column_names) >= 3
     /\ Selected \subseteq ColumnSet(uploaded)
     /\ NumericColumn(request.column_names[1])) =>
        IF NumericTrailing # <<>>
        THEN /\ outcome.exc = ""
             /\ outcome.chart.valuesKey = NumericTrailing[1]
             /\ \A i \in DOMAIN outcome.chart.data :
                    DOMAIN outcome.chart.data[i] = {request.column_names[1], NumericTrailing[1]}
        ELSE /\ outcome.exc = "ValueError"
             /\ outcome.at = "No numeric column found"

\* C10: a pie or doughnut build with one column or with three or more, all
\* of them columns of the dataset, fails with the chart-type-mismatch
\* error.
C10_PieNeedsTwoColumns ==
    (/\ BuildDone /\ request.chart_type \in {pie, doughnut}
     /\ Len(request.column_names) # 2
     /\ request.column_names # <<>>
     /\ Selected \subseteq ColumnSet(uploaded)) =>
        /\ outcome.exc = "ValueError"
        /\ outcome.at = "must contain exactly two columns"

\* C11: running convert_to_numeric again on a dataset it has already been
\* run on changes no cell value and no column type: every run that follows
\* another run leaves the DataFrame as it found it.
C11_NormalizerIdempotent == [][request.op = "normalize" => df' = df]_vars

\* a second run has been made on a DataFrame the first run had changed
C11_Witness ==
    /\ NormDone
    /\ request.df # uploaded
    /\ df = request.df
    /\ \E c \in ColumnSet(df) : df.dtype[c] = "int64"
    /\ \E c \in ColumnSet(df) : df.dtype[c] = "object"

\* C12: in every payload returned for a chart type other than pie and
\* doughnut, data is sorted ascending by the label field, the first selected
\* column: an entry's label is never greater than the label of a later one.
C12_DataSortedByLabel ==
    (BuildReturned /\ Lower(request.chart_type) \notin {pie, doughnut}) =>
        LET data == outcome.chart.data
            l    == request.column_names[1]
        IN  \A i, j \in DOMAIN data :
                i < j => data[i][l].num * data[j][l].den <= data[j][l].num * data[i][l].den

\* a payload of two entries or more, built from rows whose labels were not
\* in ascending order
C12_Witness ==
    /\ BuildReturned /\ request.chart_type \in {bar, line}
    /\ Len(outcome.chart.data) >= 2
    /\ \E i, j \in DOMAIN Survivors :
        /\ i < j
        /\ Survivors[i][request.column_names[1]].v > Survivors[j][request.column_names[1]].v

ShortenDone == request.op = "shorten"

\* C13: shorten_response returns the text cut just before its last comma,
\* the comma and everything after it removed, and the text itself when it
\* holds no comma; 'bar, category, amount, because trend' becomes
\* 'bar, category, amount'.
C13_CutBeforeLastComma ==
    ShortenDone =>
        LET s == request.s
            r == outcome.result
        IN  /\ (\A i \in DOMAIN s : s[i] # ",") => r = s
            /\ (\E i \in DOMAIN s : s[i] = ",") =>
                    /\ Len(r) < Len(s)
                    /\ \A i \in DOMAIN r : r[i] = s[i]
                    /\ s[Len(r) + 1] = ","
                    /\ \A i \in (Len(r) + 2)..Len(s) : s[i] # ","
            /\ s = TrendResponse => r = TrendSummary

\* the text of the example, with its three commas, has been cut
C13_Witness ==
    /\ ShortenDone
    /\ request.s = TrendResponse
    /\ outcome.result = TrendSummary

\* C14: remove_outliers_iqr does not fail on degenerate numeric input:
\* applied to zero rows it returns zero rows, and applied to a column whose
\* IQR is 0 it returns exactly the rows whose value equals Q1, in the order
\* they had in the input.
C14_DegenerateInput ==
    FilterDone =>
        LET c    == request.column_name
            vals == [i \in DOMAIN df.rows |-> df.rows[i][c].v]
        IN  /\ df.rows = <<>> => (outcome.exc = "" /\ outcome.df.rows = <<>>)
            /\ (df.rows # <<>> /\ Quartile4(vals, 1) = Quartile4(vals, 3)) =>
                    /\ outcome.exc = ""
                    /\ outcome.df.rows
                         = SelectSeq(df.rows, LAMBDA r : 4 * r[c].v = Quartile4(vals, 1))

\* a column whose IQR is 0 and that holds other values too: some rows were
\* dropped and two or more were kept
C14_Witness ==
    /\ FilterDone
    /\ df.rows # <<>>
    /\ LET vals == [i \in DOMAIN df.rows |-> df.rows[i][request.column_name].v]
       IN  Quartile4(vals, 1) = Quartile4(vals, 3)
    /\ Len(outcome.df.rows) >= 2
    /\ Len(outcome.df.rows) < Len(df.rows)

\* r is s cut just before its last comma, or s when s holds no comma
CutBeforeLastComma(s, r) ==
    IF \A i \in DOMAIN s : s[i] # ","
    THEN r = s
    ELSE /\ Len(r) < Len(s)
         /\ \A i \in DOMAIN r : r[i] = s[i]
         /\ s[Len(r) + 1] = ","
         /\ \A i \in (Len(r) + 2)..Len(s) : s[i] # ","

PlotDone == request.op = "plot"

\* the outcome with error = 'UNEXPECTED_ERROR' and no chart_data
PlotFailed ==
    /\ ~outcome.has_chart
    /\ outcome.chart_data = NoChart
    /\ outcome.error = "UNEXPECTED_ERROR"

\* the outcome with chart_data, error = None and the truncated response
PlotSucceeded ==
    /\ outcome.has_chart
    /\ outcome.chart_data.data # <<>>
    /\ outcome.error = "None"
    /\ CutBeforeLastComma(request.response, outcome.summary)

\* the columns of the dataset that the response mentions
Mentioned == {c \in ColumnSet(uploaded) : Occurs(request.response, c)}

\* C15: process_data_and_plot never raises to its caller: every call ends
\* either in success (chart_data present, error = None, summary the
\* truncated response) or in failure (chart_data = None, error =
\* 'UNEXPECTED_ERROR'); a model call that raises, a response that mentions
\* none of bar, line, pie, and a build that cannot succeed (pie ranked
\* first, fewer than two columns mentioned, a mentioned column that is not
\* numeric) all end in failure.
C15_NeverRaises ==
    PlotDone =>
        /\ outcome.raised = ""
        /\ PlotSucceeded \/ PlotFailed
        /\ ~(PlotSucceeded /\ PlotFailed)
        /\ ~request.llm_ok => PlotFailed
        /\ (\A i \in DOMAIN ChartVocabulary : ~Occurs(request.response, ChartVocabulary[i]))
                => PlotFailed
        /\ (request.llm_ok /\ outcome.sorted_chart_types # <<>>
                /\ outcome.sorted_chart_types[1] = pie) => PlotFailed
        /\ (request.llm_ok /\ Cardinality(Mentioned) < 2) => PlotFailed
        /\ (request.llm_ok /\ \E c \in Mentioned : ~NumericColumn(c)) => PlotFailed

\* the build step raised TypeError inside process_data_and_plot, which
\* returned the failure outcome
C15_Witness ==
    /\ PlotAnswered
    /\ outcome.sorted_chart_types # <<>>
    /\ PlotFailed
    /\ outcome.summary = <<"An unexpected error occurred", "TypeError">>

====
